---- MODULE Spec2Model ----
(***************************************************************************)
(* The exchange engine of tokenarena (src/app/api.py): the vAMM pool, the  *)
(* init / sign / confirm swap protocol, the balance store and the ledger.  *)
(*                                                                         *)
(* Numeric policy of the model.  The code computes prices with Python      *)
(* floats and stores them in Numeric(36,18) columns.  Amounts are held     *)
(* here as integers of a fixed-point base unit; products are exact and     *)
(* every division truncates to the base unit.  The amounts offered to the  *)
(* handlers are chosen so that the fee computations are exact.             *)
(*                                                                         *)
(* Concurrency.  Every HTTP request runs in its own SQLAlchemy session     *)
(* (scoped_session, autoflush=False).  The rows a handler loads stay in    *)
(* its identity map until the request ends; commit() writes, for each      *)
(* loaded row, the columns whose value differs from the loaded one, as     *)
(* absolute values (UPDATE .. SET col = value WHERE id = pk).  No query of *)
(* the handlers locks a row.  A confirm request is therefore two steps:    *)
(* read (the swap, the pool, the balances) and commit.                     *)
(*                                                                         *)
(* Specifications.  Spec: swap init and confirm on one pool, requests      *)
(* interleaved.  SpecSigned: confirm over every signed content.  SpecPool: *)
(* pool creation with the offered fee parameters, quote, swaps.            *)
(* SpecWallet: deposits and withdrawals, requests interleaved.  SpecOps:   *)
(* all of the operations on pools and balances, one request at a time.     *)
(***************************************************************************)
EXTENDS Integers, Sequences, FiniteSets, TLC

\* ---------------------------------------------------------------- bounds
MaxSwaps == 2
MaxTime == 2
MaxReq == 2
MaxDeposits == 5
MaxWithdrawals == 2
MaxPools == 2

\* ------------------------------------------------------ program constants
BpsDenominator == 10000
DefaultFeeBps == 100
DefaultLpFeeBps == 50
DefaultPlatformFeeBps == 50

\* --------------------------------------------------------- the population
Users == {1, 2}
\* os.environ PLATFORM_USER_ID: the deployment names account 3
platform_user_id == 3
Accounts == Users \cup {platform_user_id}
BTC == 1
RGB == 2
RGB2 == 3
AssetIds == {BTC, RGB, RGB2}
ReqIds == 1..MaxReq

VARIABLES
    pools,             \* table pools: pool id -> Pool row
    liq,               \* table pool_liquidity: pool id -> PoolLiquidity row
    swaps,             \* table swaps: sequence of Swap rows, id = index
    approvals,         \* table approvals: sequence of Approval rows
    ledger,            \* table ledger_entries: sequence of LedgerEntry rows
    bal,               \* table user_balances: <<user, asset>> -> row
    deposits,          \* table deposits: sequence of Deposit rows
    withdrawals,       \* table withdrawals: sequence of Withdrawal rows
    now,               \* datetime.utcnow().timestamp()
    req,               \* the confirm requests in flight
    wreq,              \* the deposit-settle and withdraw requests in flight
    resp               \* the response sent by the step just taken, if any

vars == <<pools, liq, swaps, approvals, ledger, bal, deposits, withdrawals,
          now, req, wreq, resp>>

db == <<pools, liq, swaps, approvals, ledger, bal, deposits, withdrawals>>

\* ----------------------------------------------------------------- rows
NoSwap ==
    [id |-> 0, pool_id |-> 0, user_id |-> 0, asset_in_id |-> 0,
     asset_out_id |-> 0, amount_in |-> 0, min_out |-> 0, amount_out |-> 0,
     fee_total_bps |-> 0, fee_lp_bps |-> 0, fee_platform_bps |-> 0,
     status |-> "none", nonce |-> 0, deadline_ts |-> 0, executed_at |-> 0]

NoLiq ==
    [reserve_rgb |-> 0, reserve_btc |-> 0,
     reserve_rgb_virtual |-> 0, reserve_btc_virtual |-> 0]

NoBalance == [balance |-> 0, available |-> 0]

NoDeposit ==
    [id |-> 0, user_id |-> 0, asset_id |-> 0, amount |-> 0, status |-> "none"]

IdleWReq ==
    [pc |-> "idle", d |-> NoDeposit, uid |-> 0, asset_id |-> 0,
     amount |-> 0, ub |-> NoBalance]

NoEvent == [form |-> "none", pubkey |-> 0, content |-> <<>>]

\* A response: the request it answers (op, the swap_id it named and the
\* status of the swap row the handler loaded for it), and the JSON body
\* (kind is "ok" or the error string; swap_id and amount_out are 0 when the
\* body has none).
NoPayload == << >>

NoResp ==
    [op |-> "none", arg_swap_id |-> 0, sw_status |-> "none",
     kind |-> "none", swap_id |-> 0, amount_out |-> 0,
     payload |-> NoPayload]

IdleReq ==
    [pc |-> "idle", uid |-> 0, swap_id |-> 0, pubkey |-> 0,
     event_id |-> << >>, sw |-> NoSwap, pl |-> NoLiq, bal_in |-> NoBalance, bal_out |-> NoBalance]

Max(a, b) == IF a >= b THEN a ELSE b

\* `x or d` of the handlers: a falsy column value is replaced by the default
OrDefault(x, d) == IF x = 0 THEN d ELSE x


\* ------------------------------------------------------------- pricing
\* amount_in * (1.0 - total_fee), total_fee = fee_bps / 10000.0
AinEff(amount_in, fee_bps) ==
    (amount_in * (BpsDenominator - fee_bps)) \div BpsDenominator

\* x * (bps / 10000.0)
BpsShare(x, bps) == (x * bps) \div BpsDenominator

\* (a * R_out) / (R_in + a)
ConstantProduct(a, R_in, R_out) == (a * R_out) \div (R_in + a)

\* effective reserves: real + virtual
EffRgb(pl) == pl.reserve_rgb + pl.reserve_rgb_virtual
EffBtc(pl) == pl.reserve_btc + pl.reserve_btc_virtual

\* the re-pricing of confirm, BTC -> RGB (fee on the BTC input)
ConfirmOutBtcIn(pl, amount_in, fee_bps) ==
    ConstantProduct(AinEff(amount_in, fee_bps), EffBtc(pl), EffRgb(pl))

\* the re-pricing of confirm, RGB -> BTC (fee on the BTC output)
OutGross(pl, amount_in) == ConstantProduct(amount_in, EffRgb(pl), EffBtc(pl))

ConfirmOutRgbIn(pl, amount_in, platform_bps, lp_bps) ==
    LET out_gross == OutGross(pl, amount_in)
    IN  out_gross - (BpsShare(out_gross, platform_bps)
                     + BpsShare(out_gross, lp_bps))

\* -------------------------------------------------------------- Init
\* The state after launchpad_issue_and_pool has created pool 1 (real
\* reserves 0, virtual depth VirtualDepthBtc at price 1/2) and the admin has
\* settled one deposit per funded (user, asset).
VirtualDepthBtc == 20000
VirtualDepthRgb == 40000

InitialDeposits ==
    << [user_id |-> 1, asset_id |-> BTC, amount |-> 8000],
       [user_id |-> 1, asset_id |-> RGB, amount |-> 8000],
       [user_id |-> 2, asset_id |-> BTC, amount |-> 2000],
       [user_id |-> 2, asset_id |-> RGB, amount |-> 12000] >>

DepositedTo(u, a) ==
    LET hit == {i \in DOMAIN InitialDeposits :
                    /\ InitialDeposits[i].user_id = u
                    /\ InitialDeposits[i].asset_id = a}
    IN  IF hit = {} THEN 0 ELSE InitialDeposits[CHOOSE i \in hit : TRUE].amount

\* the state of everything but the pools: no swap yet, the initial
\* deposits settled
Funded ==
    /\ swaps = << >>
    /\ approvals = << >>
    /\ ledger = [i \in DOMAIN InitialDeposits |->
                    [user_id |-> InitialDeposits[i].user_id,
                     asset_id |-> InitialDeposits[i].asset_id,
                     delta |-> InitialDeposits[i].amount,
                     ref_type |-> "deposit", ref_id |-> i]]
    /\ bal = [k \in Accounts \X AssetIds |->
                  [balance |-> DepositedTo(k[1], k[2]),
                   available |-> DepositedTo(k[1], k[2])]]
    /\ deposits = [i \in DOMAIN InitialDeposits |->
                      [id |-> i,
                       user_id |-> InitialDeposits[i].user_id,
                       asset_id |-> InitialDeposits[i].asset_id,
                       amount |-> InitialDeposits[i].amount,
                       status |-> "settled"]]
    /\ withdrawals = << >>
    /\ now = 1
    /\ req = [r \in ReqIds |-> IdleReq]
    /\ wreq = [r \in ReqIds |-> IdleWReq]
    /\ resp = NoResp

Init ==
    /\ pools = [p \in {1} |->
                  [asset_rgb_id |-> RGB, asset_btc_id |-> BTC,
                   fee_bps |-> DefaultFeeBps, lp_fee_bps |-> DefaultLpFeeBps,
                   platform_fee_bps |-> DefaultPlatformFeeBps,
                   is_active |-> TRUE]]
    /\ liq = [p \in {1} |->
                  [reserve_rgb |-> 0, reserve_btc |-> 0,
                   reserve_rgb_virtual |-> VirtualDepthRgb,
                   reserve_btc_virtual |-> VirtualDepthBtc]]
    /\ Funded

\* ---------------------------------------------------------- swap init
\* The requests offered to POST /amm/swap/init: the session's user and the
\* JSON body.
InitRequests ==
    { [uid |-> 1, pool_id |-> 1, asset_in |-> "BTC", amount_in |-> 2000,
       min_out |-> 0, deadline_ts |-> MaxTime],
      [uid |-> 1, pool_id |-> 1, asset_in |-> "BTC", amount_in |-> 2000,
       min_out |-> 4000, deadline_ts |-> MaxTime],
      [uid |-> 2, pool_id |-> 1, asset_in |-> "RGB", amount_in |-> 4000,
       min_out |-> 0, deadline_ts |-> 1],
      [uid |-> 2, pool_id |-> 1, asset_in |-> "BTC", amount_in |-> 0,
       min_out |-> 0, deadline_ts |-> 1],
      [uid |-> 1, pool_id |-> 2, asset_in |-> "BTC", amount_in |-> 2000,
       min_out |-> 0, deadline_ts |-> 1] }

InitInvalidParams(body) ==
    \/ body.pool_id <= 0
    \/ body.asset_in \notin {"BTC", "RGB"}
    \/ body.amount_in <= 0
    \/ body.min_out < 0
    \/ body.deadline_ts <= 0

ActivePool(pool_id) == pool_id \in DOMAIN pools /\ pools[pool_id].is_active

SwapInitStatus == "pending_approval"

\* asset_in_id, asset_out_id resolved from the pool
AssetInId(pool, asset_in) ==
    IF asset_in = "BTC" THEN pool.asset_btc_id ELSE pool.asset_rgb_id

\* asset_out resolved to the asset that comes in
AssetOutId_SameAsIn(pool, asset_in) == AssetInId(pool, asset_in)

AssetOutId(pool, asset_in) ==
    IF asset_in = "BTC" THEN pool.asset_rgb_id ELSE pool.asset_btc_id

\* secrets.token_hex(16): a value no earlier row holds
FreshNonce == Len(swaps) + 1

NewSwap(uid, body) ==
    LET pool == pools[body.pool_id]
    IN  [id |-> Len(swaps) + 1,
         pool_id |-> body.pool_id,
         user_id |-> uid,
         asset_in_id |-> AssetInId(pool, body.asset_in),
         asset_out_id |-> AssetOutId(pool, body.asset_in),
         amount_in |-> body.amount_in,
         min_out |-> body.min_out,
         amount_out |-> 0,
         fee_total_bps |-> OrDefault(pool.fee_bps, DefaultFeeBps),
         fee_lp_bps |-> OrDefault(pool.lp_fee_bps, DefaultLpFeeBps),
         fee_platform_bps |->
             OrDefault(pool.platform_fee_bps, DefaultPlatformFeeBps),
         status |-> SwapInitStatus,
         nonce |-> FreshNonce,
         deadline_ts |-> body.deadline_ts,
         executed_at |-> 0]

\* the payload of the response, built from the handler's locals and sw.id
InitPayload(body, swap_id) ==
    LET pool == pools[body.pool_id]
    IN  [type |-> "swap", swap_id |-> swap_id, pool_id |-> body.pool_id,
         asset_in_id |-> AssetInId(pool, body.asset_in),
         asset_out_id |-> AssetOutId(pool, body.asset_in),
         amount_in |-> body.amount_in, min_out |-> body.min_out,
         nonce |-> FreshNonce, deadline_ts |-> body.deadline_ts]

InitResp(kind, swap_id, payload) ==
    [op |-> "init", arg_swap_id |-> 0, sw_status |-> "none",
     kind |-> kind, swap_id |-> swap_id, amount_out |-> 0,
     payload |-> payload]

amm_swap_init(uid, body) ==
    /\ Len(swaps) < MaxSwaps
    /\ IF InitInvalidParams(body)
       THEN /\ resp' = InitResp("invalid_params", 0, NoPayload)
            /\ UNCHANGED swaps
       ELSE IF ~ActivePool(body.pool_id)
       THEN /\ resp' = InitResp("pool_not_found", 0, NoPayload)
            /\ UNCHANGED swaps
       ELSE /\ swaps' = Append(swaps, NewSwap(uid, body))
            /\ resp' = InitResp("ok", Len(swaps) + 1,
                                 InitPayload(body, Len(swaps) + 1))
    /\ UNCHANGED <<pools, liq, approvals, ledger, bal, deposits,
                   withdrawals, now, req, wreq>>

\* the wall clock advances
Tick ==
    /\ now < MaxTime
    /\ now' = now + 1
    /\ resp' = NoResp
    /\ UNCHANGED <<db, req, wreq>>

\* ------------------------------------------------------- swap confirm
\* Step 1 (api.py 1969-2047): load the swap, verify the signed event, load
\* the pool and the balances, re-price.  Nothing is written.

\* The canonical payload of a swap row, as swap init returns it.
Payload(sw) ==
    [type |-> "swap", swap_id |-> sw.id, pool_id |-> sw.pool_id,
     asset_in_id |-> sw.asset_in_id, asset_out_id |-> sw.asset_out_id,
     amount_in |-> sw.amount_in, min_out |-> sw.min_out,
     nonce |-> sw.nonce, deadline_ts |-> sw.deadline_ts]

RequiredKeys ==
    {"type", "swap_id", "pool_id", "asset_in_id", "asset_out_id",
     "amount_in", "min_out", "nonce", "deadline_ts"}

\* The contents a client may sign for a swap row: the payload itself, and
\* the payload with one field changed or dropped.
Contents(sw) ==
    { Payload(sw),
      [Payload(sw) EXCEPT !.nonce = 0],
      [Payload(sw) EXCEPT !.amount_in = @ + 1],
      [k \in RequiredKeys \ {"min_out"} |-> Payload(sw)[k]] }

\* The events offered to confirm.  form tells which of the checks on the
\* envelope the event passes: the field lengths, the recomputed event id,
\* the Schnorr signature of the id under the event's own pubkey.
Events(swap_id) ==
    IF swap_id \in DOMAIN swaps
    THEN { [form |-> f, pubkey |-> swaps[swap_id].user_id,
            content |-> Payload(swaps[swap_id])] :
               f \in {"bad_fields", "bad_id", "bad_sig"} }
         \cup { [form |-> "ok", pubkey |-> k, content |-> c] :
                   k \in Users, c \in Contents(swaps[swap_id]) }
    ELSE { [form |-> "ok", pubkey |-> 1, content |-> Payload(NoSwap)] }

\* the events whose content changes a field that confirm does not compare
Uncompared(swap_id) ==
    {ev \in Events(swap_id) :
        /\ swap_id \in DOMAIN swaps
        /\ RequiredKeys \subseteq DOMAIN ev.content
        /\ ev.content # Payload(swaps[swap_id])
        /\ ev.content.nonce = swaps[swap_id].nonce}

\* the events signed with the key of the swap's owner
SignedByOwner(swap_id) ==
    {ev \in Events(swap_id) :
        /\ ev.form = "ok"
        /\ swap_id \in DOMAIN swaps
        /\ ev.pubkey = swaps[swap_id].user_id}

\* The event id: sha256 over the serialised [0, pubkey, created_at, kind,
\* tags, content].  The digest is held as the pair it is computed from, so
\* two events have the same id exactly when pubkey and content agree.
nostr_event_id(ev) == <<ev.pubkey, ev.content>>

\* s.query(Swap).filter(Swap.id == swap_id, Swap.user_id == uid)
FindSwap(swap_id, uid) ==
    IF swap_id \in DOMAIN swaps /\ swaps[swap_id].user_id = uid
    THEN swaps[swap_id] ELSE NoSwap

\* the state check without the test of the status
InvalidState_NoStatusTest(sw) == sw = NoSwap

\* not sw or sw.status != "pending_approval"
InvalidState(sw) == sw = NoSwap \/ sw.status # "pending_approval"

ContentMismatch(data, sw) ==
    \/ data.type # "swap"
    \/ data.swap_id # sw.id
    \/ data.nonce # sw.nonce
    \/ data.deadline_ts # sw.deadline_ts

DeadlinePassed(sw) == sw.deadline_ts < now

\* the outcome of the checks on the swap and the event: an error string,
\* or "verified"
VerifyOutcome(uid, swap_id, ev) ==
    LET sw == FindSwap(swap_id, uid)
    IN  IF swap_id <= 0 THEN "invalid_swap_id"
        ELSE IF InvalidState(sw) THEN "invalid_state"
        ELSE IF ev.form = "bad_fields" THEN "invalid_event_fields"
        ELSE IF ev.form = "bad_id" THEN "invalid_event_id"
        ELSE IF ev.form = "bad_sig" THEN "invalid_signature"
        ELSE IF ~(RequiredKeys \subseteq DOMAIN ev.content)
             THEN "invalid_payload"
        ELSE IF ContentMismatch(ev.content, sw) THEN "mismatch"
        ELSE IF DeadlinePassed(sw) THEN "expired"
        ELSE "verified"

ErrorResp(swap_id, sw, kind) ==
    [op |-> "confirm", arg_swap_id |-> swap_id,
     sw_status |-> sw.status, kind |-> kind, swap_id |-> 0, amount_out |-> 0,
     payload |-> NoPayload]

\* the requests are anonymous: a new one takes the lowest free slot
FreeSlots == {r \in ReqIds : req[r].pc = "idle"}
FreeSlot == IF FreeSlots = {} THEN 0
            ELSE CHOOSE r \in FreeSlots : \A q \in FreeSlots : r <= q

\* api.py 2010-2047 and 2065-2085: load the pool, its liquidity row and the
\* trader's two balance rows; re-price; check slippage and funds.
PoolFeeBps(pool) == OrDefault(pool.fee_bps, DefaultFeeBps)
PoolPlatformBps(pool) == OrDefault(pool.platform_fee_bps, DefaultPlatformFeeBps)
PoolLpBps(pool) == OrDefault(pool.lp_fee_bps, DefaultLpFeeBps)

BtcIn(sw, pool) == sw.asset_in_id = pool.asset_btc_id

NoLiquidity(sw, pool, pl) == EffBtc(pl) <= 0 \/ EffRgb(pl) <= 0

\* amount_out as confirm computes it
AmountOut(sw, pool, pl) ==
    IF BtcIn(sw, pool)
    THEN ConfirmOutBtcIn(pl, sw.amount_in, PoolFeeBps(pool))
    ELSE ConfirmOutRgbIn(pl, sw.amount_in, PoolPlatformBps(pool),
                         PoolLpBps(pool))

Slippage_NoCheck(sw, amount_out) == FALSE

Slippage(sw, amount_out) == amount_out < sw.min_out

\* float(bal_in.available or 0) < amount_in
InsufficientFunds(b, amount_in) == b.available < amount_in

LoadOutcome(sw) ==
    IF ~ActivePool(sw.pool_id) THEN "pool_not_found"
    ELSE IF sw.pool_id \notin DOMAIN liq THEN "no_liquidity"
    ELSE LET pool == pools[sw.pool_id]
             pl == liq[sw.pool_id]
         IN  IF NoLiquidity(sw, pool, pl) THEN "no_liquidity"
             ELSE IF Slippage(sw, AmountOut(sw, pool, pl)) THEN "slippage"
             ELSE IF InsufficientFunds(bal[<<sw.user_id, sw.asset_in_id>>],
                                       sw.amount_in)
                  THEN "insufficient_funds"
             ELSE "loaded"

\* the outcome of everything the handler does before it mutates a row
ReadOutcome(uid, swap_id, ev) ==
    IF VerifyOutcome(uid, swap_id, ev) # "verified"
    THEN VerifyOutcome(uid, swap_id, ev)
    ELSE LoadOutcome(FindSwap(swap_id, uid))

ConfirmRead(r, uid, swap_id, ev) ==
    /\ r \in ReqIds
    /\ req[r].pc = "idle"
    /\ LET outcome == ReadOutcome(uid, swap_id, ev)
           sw == FindSwap(swap_id, uid)
       IN  IF outcome = "loaded"
           THEN /\ req' = [req EXCEPT ![r] =
                             [pc |-> "loaded", uid |-> uid,
                              swap_id |-> swap_id, pubkey |-> ev.pubkey,
                              event_id |-> nostr_event_id(ev), sw |-> sw, pl |-> liq[sw.pool_id],
                              bal_in |-> bal[<<uid, sw.asset_in_id>>],
                              bal_out |-> bal[<<uid, sw.asset_out_id>>]]]
                /\ resp' = NoResp
           ELSE /\ resp' = ErrorResp(swap_id, sw, outcome)
                /\ UNCHANGED req
    /\ UNCHANGED <<db, now, wreq>>

\* Step 2 (api.py 2048-2149): mutate the loaded rows and commit.
Debit_BalanceOnly(b, amt) ==
    [balance |-> b.balance - amt, available |-> b.available]

Debit(b, amt) ==
    [balance |-> b.balance - amt, available |-> b.available - amt]

Credit(b, amt) ==
    [balance |-> b.balance + amt, available |-> b.available + amt]

\* platform_fee inside the direction branch (2034, 2069)
BranchPlatformFee(sw, pool, pl) ==
    IF BtcIn(sw, pool)
    THEN BpsShare(sw.amount_in, PoolPlatformBps(pool))
    ELSE BpsShare(OutGross(pl, sw.amount_in), PoolPlatformBps(pool))

\* platform_fee as reassigned after the branch (2113)
FinalPlatformFee(sw, pool) == BpsShare(sw.amount_in, PoolPlatformBps(pool))

\* the reserve assignments inside the direction branch (2061-2062, 2099-2100)
BranchReserves(sw, pool, pl) ==
    LET out == AmountOut(sw, pool, pl)
        pf == BranchPlatformFee(sw, pool, pl)
    IN  IF BtcIn(sw, pool)
        THEN [pl EXCEPT !.reserve_btc = @ + (sw.amount_in - pf),
                        !.reserve_rgb = Max(0, @ - out)]
        ELSE [pl EXCEPT !.reserve_rgb = @ + sw.amount_in,
                        !.reserve_btc = Max(0, @ - (out + pf))]

\* reserve assignments that book the input into the virtual reserve
FinalReserves_IntoVirtual(sw, pool, pl1, out) ==
    IF BtcIn(sw, pool)
    THEN [pl1 EXCEPT !.reserve_btc_virtual = @ + sw.amount_in,
                     !.reserve_rgb = Max(0, @ - out)]
    ELSE [pl1 EXCEPT !.reserve_rgb_virtual = @ + sw.amount_in,
                     !.reserve_btc = Max(0, @ - out)]

\* the reserve assignments after the branch (2126-2131), applied to the row
\* the branch has already changed; out is the amount_out priced before it
FinalReserves(sw, pool, pl1, out) ==
    IF BtcIn(sw, pool)
    THEN [pl1 EXCEPT !.reserve_btc = @ + sw.amount_in,
                     !.reserve_rgb = Max(0, @ - out)]
    ELSE [pl1 EXCEPT !.reserve_rgb = @ + sw.amount_in,
                     !.reserve_btc = Max(0, @ - out)]

\* the trader's rows after the branch (2050-2053, 2088-2091) and after the
\* block that follows it (2117-2120)
BranchBalIn(sw, b) == Debit(b, sw.amount_in)
BranchBalOut(b, out) == Credit(b, out)
FinalBalIn(sw, b1) == Debit(b1, sw.amount_in)
FinalBalOut(b1, out) == Credit(b1, out)

\* the asset of the platform credit in the branch and after it
BranchFeeAsset(sw, pool) ==
    IF BtcIn(sw, pool) THEN sw.asset_in_id ELSE sw.asset_out_id
FinalFeeAsset(sw) == sw.asset_in_id
\* fee_asset_id of the fee LedgerEntry (2146)
LedgerFeeAsset(sw, pool) ==
    IF sw.asset_in_id = pool.asset_btc_id THEN sw.asset_in_id
    ELSE sw.asset_out_id

PlatformCredits(fee) == platform_user_id > 0 /\ fee > 0

\* the platform's balance rows after both credits; get_balance reads them
\* in this step, a missing row counts as zero
PlatformRows(sw, pool, pl) ==
    LET pf1 == BranchPlatformFee(sw, pool, pl)
        pf2 == FinalPlatformFee(sw, pool)
        a1 == BranchFeeAsset(sw, pool)
        a2 == FinalFeeAsset(sw)
        add(a) == (IF PlatformCredits(pf1) /\ a = a1 THEN pf1 ELSE 0)
                  + (IF PlatformCredits(pf2) /\ a = a2 THEN pf2 ELSE 0)
    IN  [a \in AssetIds |-> Credit(bal[<<platform_user_id, a>>], add(a))]

\* commit() writes a column only when its value differs from the loaded one
WriteCol(current, loaded, new) == IF new = loaded THEN current ELSE new

WriteBalance(current, loaded, new) ==
    [balance |-> WriteCol(current.balance, loaded.balance, new.balance),
     available |-> WriteCol(current.available, loaded.available,
                            new.available)]

WriteLiq(current, loaded, new) ==
    [c \in DOMAIN current |-> WriteCol(current[c], loaded[c], new[c])]

ExecutedStatus == "executed"

\* a commit that marks a row failed when another request has executed it
WriteSwap_FailOnConflict(current, loaded, out) ==
    [current EXCEPT
       !.amount_out = WriteCol(@, loaded.amount_out, out),
       !.status = IF @ = ExecutedStatus THEN "failed" ELSE ExecutedStatus,
       !.executed_at = WriteCol(@, loaded.executed_at, now)]

WriteSwap(current, loaded, out) ==
    [current EXCEPT
       !.amount_out = WriteCol(@, loaded.amount_out, out),
       !.status = WriteCol(@, loaded.status, ExecutedStatus),
       !.executed_at = WriteCol(@, loaded.executed_at, now)]

SwapLedgerEntries(sw, pool, out) ==
    << [user_id |-> sw.user_id, asset_id |-> sw.asset_in_id,
        delta |-> 0 - sw.amount_in, ref_type |-> "swap", ref_id |-> sw.id],
       [user_id |-> sw.user_id, asset_id |-> sw.asset_out_id,
        delta |-> out, ref_type |-> "swap", ref_id |-> sw.id] >>
    \o (IF PlatformCredits(FinalPlatformFee(sw, pool))
        THEN << [user_id |-> platform_user_id,
                 asset_id |-> LedgerFeeAsset(sw, pool),
                 delta |-> FinalPlatformFee(sw, pool),
                 ref_type |-> "fee", ref_id |-> sw.id] >>
        ELSE << >>)

OkResp(swap_id, sw, out) ==
    [op |-> "confirm", arg_swap_id |-> swap_id,
     sw_status |-> sw.status, kind |-> "ok", swap_id |-> sw.id,
     amount_out |-> out, payload |-> NoPayload]

\* The request ends without commit(): the teardown closes the session and
\* its transaction is rolled back.  The tables keep the committed rows;
\* what the handler had changed in its session is discarded.
remove_session_KeepsPending(committed, pending) == pending

remove_session(committed, pending) == committed

ConfirmCommit(r) ==
    /\ req[r].pc = "loaded"
    /\ LET sw == req[r].sw
           pool == pools[sw.pool_id]
           pl == req[r].pl
           out == AmountOut(sw, pool, pl)
           in_key == <<sw.user_id, sw.asset_in_id>>
           out_key == <<sw.user_id, sw.asset_out_id>>
           bal_in1 == BranchBalIn(sw, req[r].bal_in)
           bal_out1 == BranchBalOut(req[r].bal_out, out)
           bal_in2 == FinalBalIn(sw, bal_in1)
           bal_out2 == FinalBalOut(bal_out1, out)
           pl2 == FinalReserves(sw, pool, BranchReserves(sw, pool, pl), out)
           prow == PlatformRows(sw, pool, pl)
       IN  IF InsufficientFunds(bal_in1, sw.amount_in)
           THEN \* return without commit: the session is rolled back
                /\ resp' = ErrorResp(req[r].swap_id, sw,
                                     "insufficient_funds")
                /\ bal' = remove_session(bal,
                              [bal EXCEPT ![in_key] = bal_in1,
                                          ![out_key] = bal_out1])
                /\ liq' = remove_session(liq,
                              [liq EXCEPT ![sw.pool_id] =
                                  BranchReserves(sw, pool, pl)])
                /\ UNCHANGED <<pools, swaps, approvals, ledger, deposits,
                               withdrawals>>
           ELSE /\ bal' = [k \in DOMAIN bal |->
                             IF k = in_key
                             THEN WriteBalance(bal[k], req[r].bal_in, bal_in2)
                             ELSE IF k = out_key
                             THEN WriteBalance(bal[k], req[r].bal_out,
                                               bal_out2)
                             ELSE IF k[1] = platform_user_id THEN prow[k[2]]
                             ELSE bal[k]]
                /\ liq' = [liq EXCEPT ![sw.pool_id] = WriteLiq(@, pl, pl2)]
                /\ swaps' = [swaps EXCEPT ![sw.id] = WriteSwap(@, sw, out)]
                /\ approvals' = Append(approvals,
                                       [swap_id |-> sw.id,
                                        nostr_pubkey |-> req[r].pubkey,
                                        event_id |-> req[r].event_id])
                /\ ledger' = ledger \o SwapLedgerEntries(sw, pool, out)
                /\ resp' = OkResp(req[r].swap_id, sw, out)
                /\ UNCHANGED <<pools, deposits, withdrawals>>
    /\ req' = [req EXCEPT ![r] = IdleReq]
    /\ UNCHANGED <<now, wreq>>

\* ------------------------------------------------------------ the system
SwapIds == 0..MaxSwaps

Next ==
    \/ \E b \in InitRequests : amm_swap_init(b.uid, b)
    \/ \E uid \in Users, swap_id \in SwapIds :
          \E ev \in Events(swap_id) \ Uncompared(swap_id) :
              ConfirmRead(FreeSlot, uid, swap_id, ev)
    \/ \E r \in ReqIds : ConfirmCommit(r)
    \/ Tick

Spec == Init /\ [][Next]_vars

\* ------------------------------------------- the signed content alone
\* Sequential confirms (one request at a time) of events signed by the
\* swap's owner, over every content of Contents.
NextSigned ==
    \/ \E b \in InitRequests : amm_swap_init(b.uid, b)
    \/ \E swap_id \in SwapIds :
          \E ev \in SignedByOwner(swap_id) :
              ConfirmRead(1, ev.pubkey, swap_id, ev)
    \/ \E r \in ReqIds : ConfirmCommit(r)
    \/ Tick

SpecSigned == Init /\ [][NextSigned]_vars

\* ------------------------------------------------- deposits, withdrawals
\* A response of an endpoint that answers ok or an error string only.
OpResp(op, kind) == [NoResp EXCEPT !.op = op, !.kind = kind]

FreeWSlots == {r \in ReqIds : wreq[r].pc = "idle"}
FreeWSlot == IF FreeWSlots = {} THEN 0
             ELSE CHOOSE r \in FreeWSlots : \A q \in FreeWSlots : r <= q

\* The bodies offered to POST /admin/deposits/create.
DepositBodies ==
    { [user_id |-> 1, asset_id |-> BTC, amount |-> 2000],
      [user_id |-> 2, asset_id |-> RGB, amount |-> 0] }

admin_deposit_create(body) ==
    /\ Len(deposits) < MaxDeposits
    /\ IF body.amount <= 0
       THEN /\ resp' = OpResp("deposit_create", "amount_must_be_positive")
            /\ UNCHANGED deposits
       ELSE /\ deposits' = Append(deposits,
                                  [id |-> Len(deposits) + 1,
                                   user_id |-> body.user_id,
                                   asset_id |-> body.asset_id,
                                   amount |-> body.amount,
                                   status |-> "pending"])
            /\ resp' = OpResp("deposit_create", "ok")
    /\ UNCHANGED <<pools, liq, swaps, approvals, ledger, bal, withdrawals,
                   now, req, wreq>>

\* POST /admin/deposits/settle runs two queries and a commit; every one of
\* them sees what the other requests have committed by then.
\* Step 1 (api.py 1495-1504): load the deposit, answer if it is settled.
SettleLoadDeposit(r, dep_id) ==
    /\ r \in ReqIds
    /\ wreq[r].pc = "idle"
    /\ IF dep_id \notin DOMAIN deposits
       THEN /\ resp' = OpResp("deposit_settle", "not_found")
            /\ UNCHANGED wreq
       ELSE IF deposits[dep_id].status = "settled"
       THEN /\ resp' = OpResp("deposit_settle", "already")
            /\ UNCHANGED wreq
       ELSE /\ wreq' = [wreq EXCEPT ![r] =
                           [IdleWReq EXCEPT !.pc = "deposit_loaded",
                                            !.d = deposits[dep_id]]]
            /\ resp' = NoResp
    /\ UNCHANGED <<db, now, req>>

\* Step 2 (1506-1511): load the user's balance row.
SettleLoadBalance(r) ==
    /\ wreq[r].pc = "deposit_loaded"
    /\ wreq' = [wreq EXCEPT ![r].pc = "balance_loaded",
                            ![r].ub = bal[<<wreq[r].d.user_id,
                                            wreq[r].d.asset_id>>]]
    /\ resp' = NoResp
    /\ UNCHANGED <<db, now, req>>

SettledStatus == "settled"

DepositLedgerEntry(d) ==
    [user_id |-> d.user_id, asset_id |-> d.asset_id, delta |-> d.amount,
     ref_type |-> "deposit", ref_id |-> d.id]

\* Step 3 (1512-1523): credit, ledger row, mark settled, commit.
SettleCommit(r) ==
    /\ wreq[r].pc = "balance_loaded"
    /\ LET d == wreq[r].d
           ub == wreq[r].ub
           k == <<d.user_id, d.asset_id>>
       IN  /\ bal' = [bal EXCEPT
                        ![k] = WriteBalance(@, ub, Credit(ub, d.amount))]
           /\ ledger' = Append(ledger, DepositLedgerEntry(d))
           /\ deposits' = [deposits EXCEPT
                             ![d.id].status =
                                 WriteCol(@, d.status, SettledStatus)]
    /\ wreq' = [wreq EXCEPT ![r] = IdleWReq]
    /\ resp' = OpResp("deposit_settle", "ok")
    /\ UNCHANGED <<pools, liq, swaps, approvals, withdrawals, now, req>>

\* The bodies offered to POST /wallet/withdraw/request, with the session's
\* user.
WithdrawRequests ==
    { [uid |-> 1, asset_id |-> RGB, symbol |-> "", amount |-> 6000,
       invoice |-> "lnbc"],
      [uid |-> 2, asset_id |-> 0, symbol |-> "BTC", amount |-> 4000,
       invoice |-> "lnbc"],
      [uid |-> 1, asset_id |-> RGB, symbol |-> "", amount |-> 0,
       invoice |-> "lnbc"],
      [uid |-> 1, asset_id |-> RGB, symbol |-> "", amount |-> 6000,
       invoice |-> ""],
      [uid |-> 1, asset_id |-> 0, symbol |-> "XYZ", amount |-> 6000,
       invoice |-> "lnbc"] }

\* table assets: BTC and one registered asset; 0 stands for no row
AssetBySymbol(sym) ==
    IF sym = "BTC" THEN BTC
    ELSE IF sym = "RGB" THEN RGB
    ELSE IF sym = "RGB2" THEN RGB2
    ELSE 0

ResolveAsset(body) ==
    IF body.asset_id \in AssetIds THEN body.asset_id
    ELSE AssetBySymbol(body.symbol)

\* not ub or (ub.available or 0) < amount
InsufficientAvailable_NoCheck(ub, amount) == FALSE

InsufficientAvailable(ub, amount) == ub.available < amount

WithdrawOutcome(uid, body) ==
    IF body.amount <= 0 THEN "invalid_amount"
    ELSE IF body.invoice = "" THEN "invoice_required"
    ELSE IF ResolveAsset(body) = 0 THEN "asset_not_found"
    ELSE IF InsufficientAvailable(bal[<<uid, ResolveAsset(body)>>],
                                  body.amount)
         THEN "insufficient_available"
    ELSE "loaded"

WithdrawsInFlight == {r \in ReqIds : wreq[r].pc = "withdraw_loaded"}

\* Step 1 (api.py 1421-1450): validate, resolve the asset, load the balance
\* row and check it.
WithdrawRead(r, uid, body) ==
    /\ r \in ReqIds
    /\ wreq[r].pc = "idle"
    /\ Len(withdrawals) + Cardinality(WithdrawsInFlight) < MaxWithdrawals
    /\ IF WithdrawOutcome(uid, body) = "loaded"
       THEN /\ wreq' = [wreq EXCEPT ![r] =
                           [IdleWReq EXCEPT
                              !.pc = "withdraw_loaded",
                              !.uid = uid,
                              !.asset_id = ResolveAsset(body),
                              !.amount = body.amount,
                              !.ub = bal[<<uid, ResolveAsset(body)>>]]]
            /\ resp' = NoResp
       ELSE /\ resp' = OpResp("withdraw", WithdrawOutcome(uid, body))
            /\ UNCHANGED wreq
    /\ UNCHANGED <<db, now, req>>

WithdrawLedgerEntry(w) ==
    [user_id |-> w.user_id, asset_id |-> w.asset_id, delta |-> 0 - w.amount,
     ref_type |-> "withdraw", ref_id |-> w.id]

\* Step 2 (1451-1463): debit, Withdrawal row, ledger row, commit.
WithdrawCommit(r) ==
    /\ wreq[r].pc = "withdraw_loaded"
    /\ LET ub == wreq[r].ub
           k == <<wreq[r].uid, wreq[r].asset_id>>
           w == [id |-> Len(withdrawals) + 1, user_id |-> wreq[r].uid,
                 asset_id |-> wreq[r].asset_id, amount |-> wreq[r].amount,
                 status |-> "pending"]
       IN  /\ bal' = [bal EXCEPT
                        ![k] = WriteBalance(@, ub, Debit(ub, wreq[r].amount))]
           /\ withdrawals' = Append(withdrawals, w)
           /\ ledger' = Append(ledger, WithdrawLedgerEntry(w))
    /\ wreq' = [wreq EXCEPT ![r] = IdleWReq]
    /\ resp' = OpResp("withdraw", "ok")
    /\ UNCHANGED <<pools, liq, swaps, approvals, deposits, now, req>>

DepositIds == 0..MaxDeposits

\* Deposits and withdrawals alone, any number of requests in flight up to
\* MaxReq.
NextWallet ==
    \/ \E b \in DepositBodies : admin_deposit_create(b)
    \/ \E dep_id \in DepositIds : SettleLoadDeposit(FreeWSlot, dep_id)
    \/ \E r \in ReqIds : SettleLoadBalance(r)
    \/ \E r \in ReqIds : SettleCommit(r)
    \/ \E b \in WithdrawRequests : WithdrawRead(FreeWSlot, b.uid, b)
    \/ \E r \in ReqIds : WithdrawCommit(r)

SpecWallet == Init /\ [][NextWallet]_vars

\* ------------------------------------------------ pool creation, quote
\* The bodies offered to POST /launchpad/create_pool.  initial_price is the
\* fraction price_num / price_den; a fee of 0 stands for an absent key.
CreatePoolBodies ==
    { [symbol |-> "RGB", price_num |-> 1, price_den |-> 2,
       virtual_depth_btc |-> VirtualDepthBtc,
       fee_bps |-> 0, lp_fee_bps |-> 0, platform_fee_bps |-> 0],
      [symbol |-> "RGB", price_num |-> 1, price_den |-> 2,
       virtual_depth_btc |-> VirtualDepthBtc,
       fee_bps |-> 100, lp_fee_bps |-> 30, platform_fee_bps |-> 30],
      [symbol |-> "RGB", price_num |-> 1, price_den |-> 2,
       virtual_depth_btc |-> VirtualDepthBtc,
       fee_bps |-> 100, lp_fee_bps |-> 50, platform_fee_bps |-> 30000],
      [symbol |-> "RGB", price_num |-> 0, price_den |-> 1,
       virtual_depth_btc |-> VirtualDepthBtc,
       fee_bps |-> 0, lp_fee_bps |-> 0, platform_fee_bps |-> 0],
      [symbol |-> "XYZ", price_num |-> 1, price_den |-> 2,
       virtual_depth_btc |-> VirtualDepthBtc,
       fee_bps |-> 0, lp_fee_bps |-> 0, platform_fee_bps |-> 0] }

CreatePoolInvalid(body) ==
    body.price_num <= 0 \/ body.virtual_depth_btc <= 0

\* s.query(Pool).filter(asset_rgb_id == rgb.id, asset_btc_id == btc.id)
PoolsOfPair(rgb, btc) ==
    {p \in DOMAIN pools :
        pools[p].asset_rgb_id = rgb /\ pools[p].asset_btc_id = btc}

PoolExists(rgb, btc) == PoolsOfPair(rgb, btc) # {}

\* one_or_none() raises MultipleResultsFound when two rows match
PoolLookupFails(rgb, btc) == Cardinality(PoolsOfPair(rgb, btc)) > 1

NewPool(body, rgb, btc) ==
    [asset_rgb_id |-> rgb, asset_btc_id |-> btc,
     fee_bps |-> OrDefault(body.fee_bps, DefaultFeeBps),
     lp_fee_bps |-> OrDefault(body.lp_fee_bps, DefaultLpFeeBps),
     platform_fee_bps |->
         OrDefault(body.platform_fee_bps, DefaultPlatformFeeBps),
     is_active |-> TRUE]

\* reserve_rgb_virtual = virtual_depth_btc / initial_price
NewLiquidity(body) ==
    [reserve_rgb |-> 0, reserve_btc |-> 0,
     reserve_rgb_virtual |->
         (body.virtual_depth_btc * body.price_den) \div body.price_num,
     reserve_btc_virtual |-> body.virtual_depth_btc]

launchpad_create_pool(body) ==
    /\ IF CreatePoolInvalid(body)
       THEN /\ resp' = OpResp("create_pool", "invalid_params")
            /\ UNCHANGED <<pools, liq>>
       ELSE IF AssetBySymbol(body.symbol) = 0
       THEN /\ resp' = OpResp("create_pool", "asset_not_found")
            /\ UNCHANGED <<pools, liq>>
       ELSE IF PoolLookupFails(AssetBySymbol(body.symbol), BTC)
       THEN /\ resp' = OpResp("create_pool", "internal_server_error")
            /\ UNCHANGED <<pools, liq>>
       ELSE IF PoolExists(AssetBySymbol(body.symbol), BTC)
       THEN /\ resp' = OpResp("create_pool", "pool_exists")
            /\ UNCHANGED <<pools, liq>>
       ELSE /\ pools' = Append(pools,
                               NewPool(body, AssetBySymbol(body.symbol), BTC))
            /\ liq' = Append(liq, NewLiquidity(body))
            /\ resp' = OpResp("create_pool", "ok")
    /\ UNCHANGED <<swaps, approvals, ledger, bal, deposits, withdrawals,
                   now, req, wreq>>

\* The bodies offered to POST /launchpad/issue_nia_and_pool.  The tickers
\* offered are those of the assets on record, so the handler finds the
\* Asset row at api.py 2183 and creates none.
IssueBodies ==
    { [ticker |-> "RGB", name |-> "rgb", price_num |-> 1, price_den |-> 2,
       virtual_depth_btc |-> VirtualDepthBtc],
      [ticker |-> "RGB", name |-> "rgb", price_num |-> 1, price_den |-> 4,
       virtual_depth_btc |-> VirtualDepthBtc],
      [ticker |-> "", name |-> "rgb", price_num |-> 1, price_den |-> 2,
       virtual_depth_btc |-> VirtualDepthBtc] }

IssueInvalid(body) ==
    \/ body.ticker = ""
    \/ body.name = ""
    \/ body.price_num <= 0
    \/ body.virtual_depth_btc <= 0

\* Pool(fee_bps=100, lp_fee_bps=50, platform_fee_bps=50)
IssuedPool(rgb, btc) ==
    [asset_rgb_id |-> rgb, asset_btc_id |-> btc,
     fee_bps |-> DefaultFeeBps, lp_fee_bps |-> DefaultLpFeeBps,
     platform_fee_bps |-> DefaultPlatformFeeBps, is_active |-> TRUE]

\* issued: whether the RLN node answers the issue call with an asset id
launchpad_issue_and_pool(body, issued) ==
    /\ Len(pools) < MaxPools
    /\ AssetBySymbol(body.ticker) # 0 \/ IssueInvalid(body)
    /\ IF IssueInvalid(body)
       THEN /\ resp' = OpResp("issue_nia_and_pool", "invalid_params")
            /\ UNCHANGED <<pools, liq>>
       ELSE IF ~issued
       THEN /\ resp' = OpResp("issue_nia_and_pool", "rln_issue_failed")
            /\ UNCHANGED <<pools, liq>>
       ELSE /\ pools' = Append(pools,
                               IssuedPool(AssetBySymbol(body.ticker), BTC))
            /\ liq' = Append(liq, NewLiquidity(body))
            /\ resp' = OpResp("issue_nia_and_pool", "ok")
    /\ UNCHANGED <<swaps, approvals, ledger, bal, deposits, withdrawals,
                   now, req, wreq>>

\* out_gross * (1.0 - total_fee)
NetOfFee(x, fee_bps) == (x * (BpsDenominator - fee_bps)) \div BpsDenominator

\* amount_out of GET /amm/quote
QuoteOut(pool, pl, asset_in, amount_in) ==
    IF asset_in = "BTC"
    THEN ConstantProduct(AinEff(amount_in, PoolFeeBps(pool)),
                         EffBtc(pl), EffRgb(pl))
    ELSE NetOfFee(OutGross(pl, amount_in), PoolFeeBps(pool))

\* The queries offered to GET /amm/quote.
QuoteAmounts == {0, 2000, 4000}
AssetNames == {"BTC", "RGB"}
PoolIds == {1, 2}

QuoteOutcome(pool_id, asset_in, amount_in) ==
    IF pool_id <= 0 \/ amount_in <= 0 \/ asset_in \notin {"BTC", "RGB"}
    THEN "invalid_params"
    ELSE IF ~ActivePool(pool_id) THEN "pool_not_found"
    ELSE IF pool_id \notin DOMAIN liq THEN "no_liquidity"
    ELSE IF EffBtc(liq[pool_id]) <= 0 \/ EffRgb(liq[pool_id]) <= 0
         THEN "no_liquidity"
    ELSE "ok"

amm_quote(pool_id, asset_in, amount_in) ==
    /\ resp' = IF QuoteOutcome(pool_id, asset_in, amount_in) = "ok"
               THEN [OpResp("quote", "ok") EXCEPT
                       !.amount_out = QuoteOut(pools[pool_id], liq[pool_id],
                                               asset_in, amount_in)]
               ELSE OpResp("quote",
                           QuoteOutcome(pool_id, asset_in, amount_in))
    /\ UNCHANGED <<db, now, req, wreq>>

\* the state before any pool exists
InitNoPool ==
    /\ pools = << >>
    /\ liq = << >>
    /\ Funded

\* The swap requests offered once a pool exists.
PoolInitRequests == {b \in InitRequests : b.min_out = 0}

\* Pool creation with every offered fee configuration, quote, swap init and
\* confirm, one request at a time.
NextPool ==
    \/ \E b \in CreatePoolBodies : launchpad_create_pool(b)
    \/ \E pool_id \in PoolIds, asset_in \in AssetNames,
          amount_in \in QuoteAmounts :
              amm_quote(pool_id, asset_in, amount_in)
    \/ \E b \in PoolInitRequests : amm_swap_init(b.uid, b)
    \/ \E swap_id \in SwapIds :
          \E ev \in SignedByOwner(swap_id) \ Uncompared(swap_id) :
              ConfirmRead(1, ev.pubkey, swap_id, ev)
    \/ ConfirmCommit(1)

SpecPool == InitNoPool /\ [][NextPool]_vars

\* The two launchpad endpoints and the quote.
NextLaunch ==
    \/ \E b \in CreatePoolBodies : launchpad_create_pool(b)
    \/ \E b \in IssueBodies, issued \in BOOLEAN :
          launchpad_issue_and_pool(b, issued)
    \/ \E pool_id \in PoolIds, asset_in \in AssetNames,
          amount_in \in QuoteAmounts :
              amm_quote(pool_id, asset_in, amount_in)

SpecLaunch == InitNoPool /\ [][NextLaunch]_vars

\* Every operation that works on an existing pool or on the balances, one
\* request at a time, with the requests that pass validation: pool creation
\* with the default fees, swap init and confirm, deposit and withdrawal.
AcceptedPoolBodies ==
    {b \in CreatePoolBodies :
        /\ ~CreatePoolInvalid(b)
        /\ AssetBySymbol(b.symbol) # 0
        /\ b.platform_fee_bps = 0}

AcceptedDeposits == {b \in DepositBodies : b.amount > 0}

AcceptedWithdrawals ==
    {b \in WithdrawRequests :
        b.amount > 0 /\ b.invoice # "" /\ ResolveAsset(b) # 0}

NextOps ==
    \/ \E b \in AcceptedPoolBodies : launchpad_create_pool(b)
    \/ \E b \in PoolInitRequests : amm_swap_init(b.uid, b)
    \/ \E swap_id \in SwapIds :
          \E ev \in SignedByOwner(swap_id) \ Uncompared(swap_id) :
              ConfirmRead(1, ev.pubkey, swap_id, ev)
    \/ ConfirmCommit(1)
    \/ \E b \in AcceptedDeposits : admin_deposit_create(b)
    \/ \E dep_id \in DepositIds : SettleLoadDeposit(1, dep_id)
    \/ SettleLoadBalance(1)
    \/ SettleCommit(1)
    \/ \E b \in AcceptedWithdrawals : WithdrawRead(1, b.uid, b)
    \/ WithdrawCommit(1)

SpecOps == InitNoPool /\ [][NextOps]_vars

\* Two pools of different pairs, BTC/RGB and BTC/RGB2, as two create_pool
\* requests leave them, and concurrent swaps on both.
TwoPoolBodies ==
    [p \in {1, 2} |->
        [symbol |-> IF p = 1 THEN "RGB" ELSE "RGB2",
         price_num |-> 1, price_den |-> 2,
         virtual_depth_btc |-> VirtualDepthBtc,
         fee_bps |-> 0, lp_fee_bps |-> 0, platform_fee_bps |-> 0]]

InitTwoPools ==
    /\ pools = [p \in {1, 2} |->
                  NewPool(TwoPoolBodies[p],
                          AssetBySymbol(TwoPoolBodies[p].symbol), BTC)]
    /\ liq = [p \in {1, 2} |-> NewLiquidity(TwoPoolBodies[p])]
    /\ Funded

TwoPoolRequests ==
    { [uid |-> 1, pool_id |-> p, asset_in |-> "BTC", amount_in |-> 2000,
       min_out |-> 0, deadline_ts |-> MaxTime] : p \in {1, 2} }
    \cup
    { [uid |-> 2, pool_id |-> 1, asset_in |-> "RGB", amount_in |-> 4000,
       min_out |-> 0, deadline_ts |-> MaxTime] }

NextTwoPools ==
    \/ \E b \in TwoPoolRequests : amm_swap_init(b.uid, b)
    \/ \E swap_id \in SwapIds :
          \E ev \in SignedByOwner(swap_id) \ Uncompared(swap_id) :
              ConfirmRead(FreeSlot, ev.pubkey, swap_id, ev)
    \/ \E r \in ReqIds : ConfirmCommit(r)

SpecTwoPools == InitTwoPools /\ [][NextTwoPools]_vars

\* ------------------------------------------------------------ properties
RECURSIVE UserSum(_, _)
UserSum(S, a) ==
    IF S = {} THEN 0
    ELSE LET u == CHOOSE u \in S : TRUE
         IN  bal[<<u, a>>].balance + UserSum(S \ {u}, a)

RealReserve(p, a) ==
    IF a = pools[p].asset_btc_id THEN liq[p].reserve_btc
    ELSE IF a = pools[p].asset_rgb_id THEN liq[p].reserve_rgb
    ELSE 0

\* user balances + platform balance + real reserve of pool 1, per asset
Holdings(a) ==
    UserSum(Users, a) + bal[<<platform_user_id, a>>].balance
    + RealReserve(1, a)

RECURSIVE DepositSum(_, _)
DepositSum(n, a) ==
    IF n = 0 THEN 0
    ELSE (IF InitialDeposits[n].asset_id = a
          THEN InitialDeposits[n].amount ELSE 0) + DepositSum(n - 1, a)

ApprovalsOf(i) == {k \in DOMAIN approvals : approvals[k].swap_id = i}

DebitsOf(i) ==
    {k \in DOMAIN ledger :
        /\ ledger[k].ref_type = "swap"
        /\ ledger[k].ref_id = i
        /\ ledger[k].delta < 0}

\* this step is the commit of request r, and it answered ok
Committed(r) ==
    /\ req[r].pc = "loaded"
    /\ req'[r].pc = "idle"
    /\ resp'.op = "confirm"
    /\ resp'.kind = "ok"

\* C1: over any sequence of swap confirms on the pool, for each asset the
\* sum of the user balances, the platform balance and the pool's real
\* reserve stays what it was before the first confirm (here: the deposits).
C1_Conservation == \A a \in AssetIds : Holdings(a) = DepositSum(Len(InitialDeposits), a)

\* C2: a successful confirm debits amount_in once from the trader's
\* balance and available of asset_in, credits the returned amount_out once
\* to balance and available of asset_out, and stores that amount_out on the
\* swap.
C2_DebitCreditOnce ==
    [][\A r \in ReqIds :
          Committed(r) =>
            LET sw == req[r].sw
                kin == <<sw.user_id, sw.asset_in_id>>
                kout == <<sw.user_id, sw.asset_out_id>>
            IN  /\ bal'[kin] = Debit(bal[kin], sw.amount_in)
                /\ bal'[kout] = Credit(bal[kout], resp'.amount_out)
                /\ swaps'[sw.id].amount_out = resp'.amount_out]_vars

\* C3: in every reachable state every swap has at most one Approval row and
\* has been executed (debited in the ledger) at most once.
C3_AtMostOnce ==
    \A i \in DOMAIN swaps :
        /\ Cardinality(ApprovalsOf(i)) <= 1
        /\ Cardinality(DebitsOf(i)) <= 1

\* C4: a confirm request that finds its swap already executed changes no
\* table: no new LedgerEntry or Approval row, no change to a balance, a
\* reserve or the swap row.
C4_ExecutedConfirmNoMutation ==
    [][(resp'.op = "confirm" /\ resp'.sw_status = "executed") => db' = db]_vars

C4_Witness ==
    /\ resp.op = "confirm"
    /\ resp.sw_status = "executed"
    /\ resp.arg_swap_id \in DOMAIN swaps
    /\ Cardinality(ApprovalsOf(resp.arg_swap_id)) = 1

\* C5: the response to a confirm of an already executed swap is the stored
\* outcome: ok, with the swap's id and its stored amount_out.
C5_ExecutedConfirmReturnsOutcome ==
    (resp.op = "confirm" /\ resp.sw_status = "executed") =>
        /\ resp.kind = "ok"
        /\ resp.swap_id = resp.arg_swap_id
        /\ resp.amount_out = swaps[resp.arg_swap_id].amount_out

\* C6: a confirm rejected because the deadline has elapsed leaves the swap
\* in status expired.
C6_ExpiredBecomesTerminal ==
    (resp.op = "confirm" /\ resp.kind = "expired") =>
        swaps[resp.arg_swap_id].status = "expired"

\* C7: a confirm rejected for slippage leaves the swap in status failed.
C7_SlippageBecomesFailed ==
    (resp.op = "confirm" /\ resp.kind = "slippage") =>
        swaps[resp.arg_swap_id].status = "failed"

\* C8: every swap row is created in status pending_approval, no row is ever
\* removed, and a row whose status is not pending_approval keeps its status
\* in every later step.
C8_StatusMonotonic ==
    [][/\ DOMAIN swaps \subseteq DOMAIN swaps'
       /\ \A i \in DOMAIN swaps' \ DOMAIN swaps :
             swaps'[i].status = "pending_approval"
       /\ \A i \in DOMAIN swaps :
             swaps[i].status # "pending_approval" =>
                 swaps'[i].status = swaps[i].status]_vars

C8_Witness ==
    \E i \in DOMAIN swaps :
        /\ swaps[i].status = "executed"
        /\ Cardinality(ApprovalsOf(i)) >= 2

\* C9: a commit of a swap that no other request has executed meanwhile
\* leaves the reserves and the trader's balances as executing the whole
\* confirm at that moment would: no write of another confirm on the pool is
\* lost between its read and its write.
C9_NoLostUpdate ==
    [][\A r \in ReqIds :
          (Committed(r) /\ swaps[req[r].sw.id] = req[r].sw) =>
            LET sw == req[r].sw
                pool == pools[sw.pool_id]
                cur == liq[sw.pool_id]
                out == AmountOut(sw, pool, cur)
                kin == <<sw.user_id, sw.asset_in_id>>
                kout == <<sw.user_id, sw.asset_out_id>>
            IN  /\ liq'[sw.pool_id] =
                       FinalReserves(sw, pool, BranchReserves(sw, pool, cur),
                                     out)
                /\ bal'[kin] = FinalBalIn(sw, BranchBalIn(sw, bal[kin]))
                /\ bal'[kout] =
                       FinalBalOut(BranchBalOut(bal[kout], out), out)]_vars

\* C10: an executed BTC-in swap raises the real BTC reserve by exactly
\* amount_in - platform_fee, platform_fee = amount_in * platform_fee_bps /
\* 10000, and lowers the real RGB reserve by amount_out, floored at 0.
C10_SettlementInReserves ==
    [][\A r \in ReqIds :
          (Committed(r) /\ BtcIn(req[r].sw, pools[req[r].sw.pool_id])) =>
            LET sw == req[r].sw
                pool == pools[sw.pool_id]
                fee == BpsShare(sw.amount_in, PoolPlatformBps(pool))
            IN  /\ liq'[sw.pool_id].reserve_btc =
                       liq[sw.pool_id].reserve_btc + (sw.amount_in - fee)
                /\ liq'[sw.pool_id].reserve_rgb =
                       Max(0, liq[sw.pool_id].reserve_rgb - resp'.amount_out)
           ]_vars

\* the ledger rows this step appends
NewLedgerRows == SubSeq(ledger', Len(ledger) + 1, Len(ledger'))

\* C11: an executed RGB-in swap raises the pool's real RGB reserve by
\* exactly amount_in and lowers the real BTC reserve by exactly amount_out
\* plus platform_fee (the platform's share of the gross output), floored
\* at 0.
C11_RegisteredInReserves ==
    [][\A r \in ReqIds :
          (/\ Committed(r)
           /\ ~BtcIn(req[r].sw, pools[req[r].sw.pool_id])
           /\ liq[req[r].sw.pool_id] = req[r].pl) =>
            LET sw == req[r].sw
                pool == pools[sw.pool_id]
                fee == BpsShare(OutGross(req[r].pl, sw.amount_in),
                                PoolPlatformBps(pool))
            IN  /\ liq'[sw.pool_id].reserve_rgb =
                       liq[sw.pool_id].reserve_rgb + sw.amount_in
                /\ liq'[sw.pool_id].reserve_btc =
                       Max(0, liq[sw.pool_id].reserve_btc
                              - (resp'.amount_out + fee))
           ]_vars

\* C12: a successful confirm, in either direction, credits the platform fee
\* to the platform's BTC balance only; the fee LedgerEntry it writes has
\* asset BTC and the amount of that credit, there is one such entry exactly
\* when there is a credit, and the platform's RGB balance does not change.
C12_PlatformFeeInSettlementAsset ==
    [][\A r \in ReqIds :
          Committed(r) =>
            LET credit == bal'[<<platform_user_id, BTC>>].balance
                          - bal[<<platform_user_id, BTC>>].balance
                fees == {k \in DOMAIN NewLedgerRows :
                            NewLedgerRows[k].ref_type = "fee"}
            IN  /\ bal'[<<platform_user_id, RGB>>] =
                       bal[<<platform_user_id, RGB>>]
                /\ Cardinality(fees) = (IF credit > 0 THEN 1 ELSE 0)
                /\ \A k \in fees :
                      /\ NewLedgerRows[k].user_id = platform_user_id
                      /\ NewLedgerRows[k].asset_id = BTC
                      /\ NewLedgerRows[k].delta = credit
           ]_vars

\* C13: in every reachable state every pool's real reserves are
\* non-negative: reserve_rgb >= 0 and reserve_btc >= 0.
C13_RealReservesNonNegative ==
    \A p \in DOMAIN liq : liq[p].reserve_rgb >= 0 /\ liq[p].reserve_btc >= 0

\* C14: the virtual reserves of a pool keep the values set at its creation:
\* no step of swap init, swap confirm, deposit create or settle, or
\* withdrawal changes reserve_rgb_virtual or reserve_btc_virtual of an
\* existing pool, and no liquidity row disappears.
C14_VirtualReservesFixed ==
    [][\A p \in DOMAIN liq :
          /\ p \in DOMAIN liq'
          /\ liq'[p].reserve_rgb_virtual = liq[p].reserve_rgb_virtual
          /\ liq'[p].reserve_btc_virtual = liq[p].reserve_btc_virtual]_vars

C14_Witness ==
    /\ \E i \in DOMAIN swaps : swaps[i].status = "executed"
    /\ \E p \in DOMAIN liq : liq[p].reserve_btc > 0
    /\ Len(withdrawals) > 0
    /\ \E i \in DOMAIN deposits :
          i > Len(InitialDeposits) /\ deposits[i].status = "settled"

\* C15: every executed swap was approved by an event whose content equals
\* the payload of the stored swap row in every field; an event that differs
\* in pool_id, asset_in_id, asset_out_id, amount_in, min_out, nonce,
\* deadline_ts or swap_id never yields an Approval row.
C15_SignedContentIsTheIntent ==
    \A k \in DOMAIN approvals :
        approvals[k].event_id[2] = Payload(swaps[approvals[k].swap_id])

\* C16: swap init accepts a request only if its deadline_ts has not passed,
\* amount_in > 0, min_out >= 0 and the pool is active; a rejected request
\* creates no Swap row.
C16_InitRejectsPastDeadline ==
    [][resp'.op = "init" =>
          IF resp'.kind = "ok"
          THEN LET sw == swaps'[resp'.swap_id]
               IN  /\ sw.deadline_ts >= now
                   /\ sw.amount_in > 0
                   /\ sw.min_out >= 0
                   /\ ActivePool(sw.pool_id)
          ELSE swaps' = swaps]_vars

\* C17: a successful swap init appends exactly one Swap row, in
\* pending_approval, whose asset_in and asset_out are the two assets of the
\* pool, whose fee snapshot is the pool's fee parameters and whose nonce no
\* earlier row holds; the payload it returns equals the row field for field;
\* no pool, reserve, balance, ledger entry, approval, deposit or withdrawal
\* changes.
C17_InitCreatesOnePendingRow ==
    [][(resp'.op = "init" /\ resp'.kind = "ok") =>
          LET sw == swaps'[Len(swaps')]
              pool == pools[sw.pool_id]
          IN  /\ swaps' = Append(swaps, sw)
              /\ resp'.swap_id = sw.id
              /\ sw.id = Len(swaps')
              /\ sw.status = "pending_approval"
              /\ {sw.asset_in_id, sw.asset_out_id} =
                     {pool.asset_btc_id, pool.asset_rgb_id}
              /\ sw.asset_in_id # sw.asset_out_id
              /\ sw.fee_total_bps = pool.fee_bps
              /\ sw.fee_lp_bps = pool.lp_fee_bps
              /\ sw.fee_platform_bps = pool.platform_fee_bps
              /\ \A i \in DOMAIN swaps : swaps[i].nonce # sw.nonce
              /\ resp'.payload = Payload(sw)
              /\ UNCHANGED <<pools, liq, bal, ledger, approvals, deposits,
                             withdrawals>>]_vars

C17_Witness ==
    /\ resp.op = "init"
    /\ resp.kind = "ok"
    /\ resp.swap_id = MaxSwaps
    /\ resp.payload = Payload(swaps[MaxSwaps])
    /\ resp.payload.asset_in_id = RGB

\* C18: a confirm request that answers with an error (invalid state,
\* invalid event, mismatch, expired, no pool or liquidity, slippage,
\* insufficient funds at the first or at the second balance check) leaves
\* every table as it was before the step.
C18_ErrorLeavesStateUnchanged ==
    [][(resp'.op = "confirm" /\ resp'.kind # "ok") => db' = db]_vars

\* the second balance check has answered: the trader still holds amount_in
C18_Witness ==
    /\ resp.op = "confirm"
    /\ resp.kind = "insufficient_funds"
    /\ resp.arg_swap_id \in DOMAIN swaps
    /\ LET sw == swaps[resp.arg_swap_id]
       IN  bal[<<sw.user_id, sw.asset_in_id>>].available >= sw.amount_in

\* C19: for every pool that exists, in either direction and for every
\* offered amount_in, the amount_out confirm computes on the pool's
\* reserves equals the amount_out the quote endpoint returns on the same
\* reserves.  Both are truncated to the base unit here (the quote once,
\* confirm up to twice), so equal means: no further apart than 2 units.
C19_ConfirmPriceIsQuote ==
    \A p \in DOMAIN pools, asset_in \in AssetNames,
       amount_in \in QuoteAmounts \ {0} :
        LET sw == [asset_in_id |-> AssetInId(pools[p], asset_in),
                   amount_in |-> amount_in]
            d == AmountOut(sw, pools[p], liq[p])
                 - QuoteOut(pools[p], liq[p], asset_in, amount_in)
        IN  d <= 2 /\ 0 - d <= 2

DepositEntriesOf(i) ==
    {k \in DOMAIN ledger :
        ledger[k].ref_type = "deposit" /\ ledger[k].ref_id = i}

RECURSIVE DepositedSum(_, _, _)
DepositedSum(n, u, a) ==
    IF n = 0 THEN 0
    ELSE (IF deposits[n].user_id = u /\ deposits[n].asset_id = a
          THEN deposits[n].amount ELSE 0) + DepositedSum(n - 1, u, a)

NeverDebited(u, a) ==
    \A k \in DOMAIN ledger :
        (ledger[k].user_id = u /\ ledger[k].asset_id = a) =>
            ledger[k].delta >= 0

\* C20: under any interleaving of settle requests every deposit is
\* referenced by at most one 'deposit' LedgerEntry, and is credited at most
\* once: a balance that was never debited is at most the sum of the
\* deposits made to it.
C20_SettleAtMostOnce ==
    /\ \A i \in DOMAIN deposits : Cardinality(DepositEntriesOf(i)) <= 1
    /\ \A k \in DOMAIN bal :
          NeverDebited(k[1], k[2]) =>
              bal[k].balance <= DepositedSum(Len(deposits), k[1], k[2])

\* this step is the commit of withdraw request r
WithdrawCommitted(r) ==
    wreq[r].pc = "withdraw_loaded" /\ wreq'[r].pc = "idle"

\* C21: a withdrawal request that is refused changes no table; one that is
\* accepted appends its Withdrawal row and, under every interleaving, takes
\* the row's amount from the balance and the available amount the user has
\* at that moment, which cover it.
C21_WithdrawDebitsMatchRows ==
    [][/\ (resp'.op = "withdraw" /\ resp'.kind # "ok") => db' = db
       /\ \A r \in ReqIds :
             WithdrawCommitted(r) =>
               LET k == <<wreq[r].uid, wreq[r].asset_id>>
                   w == withdrawals'[Len(withdrawals')]
               IN  /\ Len(withdrawals') = Len(withdrawals) + 1
                   /\ w.amount = wreq[r].amount
                   /\ bal[k].available >= w.amount
                   /\ bal'[k] = Debit(bal[k], w.amount)]_vars

SamePair(p, q) ==
    /\ pools[p].asset_btc_id = pools[q].asset_btc_id
    /\ pools[p].asset_rgb_id = pools[q].asset_rgb_id

\* C22: after any sequence of requests to create_pool and
\* issue_nia_and_pool no two Pool rows have the same (asset_btc_id,
\* asset_rgb_id), and a request for a pair that has a pool is answered
\* with an error.
C22_OnePoolPerPair ==
    /\ \A p, q \in DOMAIN pools : SamePair(p, q) => p = q
    /\ (resp.op \in {"create_pool", "issue_nia_and_pool"} /\ resp.kind = "ok")
          => \A p \in DOMAIN pools :
                SamePair(p, Len(pools)) => p = Len(pools)

\* C23: every pool has lp_fee_bps + platform_fee_bps <= fee_bps, and the
\* fee snapshot of every swap row equals the fee parameters of its pool,
\* which are the ones confirm applies.
C23_FeeSplitWithinTotal ==
    /\ \A p \in DOMAIN pools :
          pools[p].lp_fee_bps + pools[p].platform_fee_bps <= pools[p].fee_bps
    /\ \A i \in DOMAIN swaps :
          LET pool == pools[swaps[i].pool_id]
          IN  /\ swaps[i].fee_total_bps = PoolFeeBps(pool)
              /\ swaps[i].fee_lp_bps = PoolLpBps(pool)
              /\ swaps[i].fee_platform_bps = PoolPlatformBps(pool)

RECURSIVE LedgerSum(_, _, _)
LedgerSum(n, u, a) ==
    IF n = 0 THEN 0
    ELSE (IF ledger[n].user_id = u /\ ledger[n].asset_id = a
          THEN ledger[n].delta ELSE 0) + LedgerSum(n - 1, u, a)

\* C24: in every state reached by deposit settles, withdrawals and swap
\* confirms, for every (user, asset) the balance equals the sum of the
\* deltas of the LedgerEntry rows of that (user, asset).
C24_LedgerMatchesBalances ==
    \A u \in Accounts, a \in AssetIds :
        bal[<<u, a>>].balance = LedgerSum(Len(ledger), u, a)

\* C25: in every reachable state every UserBalance row has
\* available <= balance.
C25_AvailableWithinBalance ==
    \A k \in DOMAIN bal : bal[k].available <= bal[k].balance

\* a swap has executed, a new deposit was settled and a withdrawal was made
C25_Witness ==
    /\ \E i \in DOMAIN swaps : swaps[i].status = "executed"
    /\ \E d \in DOMAIN deposits :
          d > Len(InitialDeposits) /\ deposits[d].status = "settled"
    /\ Len(withdrawals) > 0
    /\ \E k \in DOMAIN bal : bal[k].balance # DepositedTo(k[1], k[2])

\* the reserves of the pool as they were when it was created
CreationLiquidity(p) ==
    [liq[p] EXCEPT !.reserve_btc = 0, !.reserve_rgb = 0]

\* C26: every executed swap records an amount_out >= its min_out, and that
\* amount_out is priced on the pool's reserves as the confirm request reads
\* them (the PoolLiquidity row of that moment, with every swap committed
\* before it), not on the reserves at init time.
C26_PricedAtConfirm ==
    [][\A r \in ReqIds :
          /\ (req[r].pc = "idle" /\ req'[r].pc = "loaded")
                => req'[r].pl = liq[req'[r].sw.pool_id]
          /\ Committed(r) =>
                LET sw == req[r].sw
                    out == swaps'[sw.id].amount_out
                IN  /\ swaps'[sw.id].status = ExecutedStatus
                    /\ out = AmountOut(sw, pools[sw.pool_id], req[r].pl)
                    /\ out >= sw.min_out]_vars

\* a swap was executed whose min_out is above what the reserves the pool
\* was created with would have paid
C26_Witness ==
    \E i \in DOMAIN swaps :
        /\ swaps[i].status = ExecutedStatus
        /\ swaps[i].amount_out >= swaps[i].min_out
        /\ swaps[i].min_out >
              AmountOut(swaps[i], pools[swaps[i].pool_id],
                        CreationLiquidity(swaps[i].pool_id))

\* C27: a commit of a confirm on pool P leaves the PoolLiquidity row of
\* every other pool unchanged, and when no other confirm on P came between
\* its read and its commit (the swap and P's reserves are as it read them)
\* it leaves the trader's balances as executing the whole confirm at that
\* moment would: confirms on other pools that overlap it make no difference.
C27_PoolsIndependent ==
    [][\A r \in ReqIds :
          Committed(r) =>
            LET sw == req[r].sw
                pool == pools[sw.pool_id]
                out == AmountOut(sw, pool, req[r].pl)
                kin == <<sw.user_id, sw.asset_in_id>>
                kout == <<sw.user_id, sw.asset_out_id>>
            IN  /\ \A p \in DOMAIN liq :
                      p # sw.pool_id => liq'[p] = liq[p]
                /\ (swaps[sw.id] = sw /\ liq[sw.pool_id] = req[r].pl) =>
                      /\ bal'[kin] = FinalBalIn(sw, BranchBalIn(sw, bal[kin]))
                      /\ bal'[kout] =
                           FinalBalOut(BranchBalOut(bal[kout], out), out)]_vars

\* C28: a confirm of a pending, validly signed, unexpired swap that passes
\* the slippage check answers insufficient_funds only when the trader's
\* available balance of asset_in is below amount_in.
C28_InsufficientOnlyBelowAmount ==
    (/\ resp.op = "confirm"
     /\ resp.kind = "insufficient_funds"
     /\ resp.arg_swap_id \in DOMAIN swaps)
        => LET sw == swaps[resp.arg_swap_id]
           IN  bal[<<sw.user_id, sw.asset_in_id>>].available < sw.amount_in

\* C29: every Approval row records the key of the owner of its swap: a
\* swap is executed only by an event whose pubkey is the key its owner
\* authenticated with.
C29_ApprovedByOwnerKey ==
    \A k \in DOMAIN approvals :
        approvals[k].nostr_pubkey = swaps[approvals[k].swap_id].user_id

====
